---- MODULE Spec2Model ----
(***************************************************************************)
(* The symbolic memory / pointer layer of MIR-V:                           *)
(*   src/src/expr/ty.rs                 Type, num_fields, array_size, ...  *)
(*   src/src/solvers/z3/z3_memspace.rs  object spaces, pointer datatype    *)
(***************************************************************************)
EXTENDS Bags, FiniteSets, Integers, Sequences, TLC

VARIABLES
    object_spaces,   \* pointer_logic's map: object -> <<base term, len term>>
    assertions,      \* the solver's assertion stack, a bag of boolean terms
    cur_alloc_expr,  \* Option: the array term of alive allocations, or None
    arg,             \* the object handed to the last create_object_space call
    ret,             \* the term the last create_object_space call returned
    status,          \* "running", or "aborted" once an assert!/expect fired
    reg_log,         \* history: <<object, cur_alloc_expr at its registration>>
    ty,              \* Type layer: the type under construction
    nf,              \* Type layer: the last result of num_fields
    pt_in,           \* Pointer layer: the <<base, offset, meta>> input terms
    pt,              \* Pointer layer: the last term mk_pointer built
    pt_meta_given,   \* Pointer layer: whether the last mk_pointer got Some(meta)
    pt_op,           \* Pointer layer: which accessor was applied last
    pt_out           \* Pointer layer: the last accessor application

vars == <<object_spaces, assertions, cur_alloc_expr, arg, ret, status, reg_log,
          ty, nf, pt_in, pt, pt_meta_given, pt_op, pt_out>>

mem_vars == <<object_spaces, assertions, cur_alloc_expr, arg, ret, status, reg_log>>
ty_vars  == <<ty, nf>>
pt_vars  == <<pt_in, pt, pt_meta_given, pt_op, pt_out>>

(***************************************************************************)
(* Bounds of the model.                                                    *)
(***************************************************************************)
MaxArrLen == 2     \* array lengths 0..MaxArrLen when types are built
MaxDepth  == 2     \* nesting depth of the types built
MaxAddr   == 2     \* solver models interpret integer symbols in 0..MaxAddr
MaxInt    == 2     \* pointer fields are integer literals in -1..MaxInt

(***************************************************************************)
(* Type: a wrapper for Ty.  k is the kind, elems the element / field /     *)
(* pointee types, n the declared array length.                             *)
(***************************************************************************)
MkType(k, elems, n) == [k |-> k, elems |-> elems, n |-> n]

unit_type        == MkType("tuple", <<>>, 0)
bool_type        == MkType("bool", <<>>, 0)
usize_type       == MkType("uint", <<>>, 0)
isize_type       == MkType("int", <<>>, 0)
char_type        == MkType("char", <<>>, 0)
layout_type      == MkType("layout", <<>>, 0)
array_type(e, n) == MkType("array", <<e>>, n)
ptr_type(p)      == MkType("ptr", <<p>>, 0)
ref_type(p)      == MkType("ref", <<p>>, 0)
box_type(p)      == MkType("box", <<p>>, 0)
struct_type(fs)  == MkType("struct", fs, 0)
tuple_type(es)   == MkType("tuple", es, 0)

is_tuple(t)   == t.k = "tuple"
is_unit(t)    == t.k = "tuple" /\ t.elems = <<>>
is_bool(t)    == t.k = "bool"
is_integer(t) == t.k \in {"int", "uint"}
is_array(t)   == t.k = "array"
is_ref(t)     == t.k = "ref"
is_ptr(t)     == t.k = "ptr"
is_box(t)     == t.k = "box"
is_layout(t)  == t.k = "layout"
\* kind().is_struct() holds of every struct ADT, Box and Layout included
is_struct(t)  == t.k \in {"struct", "box", "layout"} /\ ~is_box(t) /\ ~is_layout(t)
is_any_ptr(t) == is_ref(t) \/ is_ptr(t) \/ is_box(t)

\* Results of operations that may panic
Ok(v) == [panic |-> FALSE, v |-> v]
Panicked == [panic |-> TRUE, v |-> 0]

\* Option<u64>
Some(v) == [some |-> TRUE, v |-> v]
None == [some |-> FALSE, v |-> 0]

\* array_size: None for a declared length of 0
array_size(t) == IF t.n = 0 THEN None ELSE Some(t.n)

\* struct_def: the field list, or a panic when it is empty
struct_def(t) == IF t.elems = <<>> THEN Panicked ELSE Ok(t.elems)

tuple_def(t) == t.elems

RECURSIVE num_fields(_)
RECURSIVE fold_num_fields(_, _)
\* def.iter().fold(0, |acc, x| acc + x.num_fields())
fold_num_fields(acc, def) ==
    IF def = <<>> THEN Ok(acc)
    ELSE LET s == num_fields(Head(def)) IN
         IF s.panic THEN Panicked ELSE fold_num_fields(acc + s.v, Tail(def))

num_fields(t) ==
    IF is_unit(t) THEN Ok(0)
    ELSE IF is_bool(t) \/ is_integer(t) \/ is_any_ptr(t) THEN Ok(1)
    ELSE IF is_array(t) THEN
        IF array_size(t).some THEN Ok(array_size(t).v) ELSE Panicked
    ELSE IF is_struct(t) THEN
        IF struct_def(t).panic THEN Panicked
        ELSE fold_num_fields(0, struct_def(t).v)
    ELSE IF is_tuple(t) THEN fold_num_fields(0, tuple_def(t))
    ELSE Panicked   \* todo!()

(***************************************************************************)
(* The type layer as a state machine: types are built bottom-up and        *)
(* num_fields is applied to the type built so far.                         *)
(***************************************************************************)
Scalars == {unit_type, bool_type, usize_type, isize_type, char_type, layout_type,
            ptr_type(usize_type), ref_type(bool_type), box_type(isize_type)}

Siblings == {unit_type, bool_type, isize_type, box_type(isize_type),
             array_type(usize_type, MaxArrLen), struct_type(<<bool_type, usize_type>>)}

RECURSIVE Depth(_)
RECURSIVE MaxDepthOf(_)
MaxDepthOf(ts) == IF ts = <<>> THEN 0
                  ELSE LET d == Depth(Head(ts)) r == MaxDepthOf(Tail(ts))
                       IN IF d > r THEN d ELSE r
Depth(t) == IF t.k \in {"array", "struct", "tuple"} /\ t.elems # <<>>
            THEN 1 + MaxDepthOf(t.elems) ELSE 0

NoResult == [done |-> FALSE, panic |-> FALSE, v |-> 0]

TyInit == /\ ty \in Scalars \cup {struct_type(<<>>)}
          /\ nf = NoResult

WrapArray == /\ Depth(ty) < MaxDepth
             /\ \E n \in 0..MaxArrLen : ty' = array_type(ty, n)
             /\ nf' = NoResult
             /\ UNCHANGED <<mem_vars, pt_vars>>

WrapStruct == /\ Depth(ty) < MaxDepth
              /\ \E s \in Siblings, c \in 1..3 :
                    ty' = struct_type(CASE c = 1 -> <<ty>>
                                        [] c = 2 -> <<ty, s>>
                                        [] c = 3 -> <<s, ty>>)
              /\ nf' = NoResult
              /\ UNCHANGED <<mem_vars, pt_vars>>

WrapTuple == /\ Depth(ty) < MaxDepth
             /\ \E s \in Siblings, c \in 1..3 :
                    ty' = tuple_type(CASE c = 1 -> <<ty>>
                                       [] c = 2 -> <<ty, s>>
                                       [] c = 3 -> <<s, ty>>)
             /\ nf' = NoResult
             /\ UNCHANGED <<mem_vars, pt_vars>>

CallNumFields == /\ ~nf.done
                 /\ nf' = [done |-> TRUE, panic |-> num_fields(ty).panic,
                           v |-> num_fields(ty).v]
                 /\ ty' = ty
                 /\ UNCHANGED <<mem_vars, pt_vars>>

(***************************************************************************)
(* SMT terms as the Z3Conv builders produce them, and their meaning in a   *)
(* solver model.                                                           *)
(***************************************************************************)
Term(op, name, val, args) == [op |-> op, name |-> name, val |-> val, args |-> args]

mk_int_symbol(name) == Term("int_sym", name, 0, <<>>)
mk_smt_int(n)       == Term("int", "", n, <<>>)
mk_gt(a, b)         == Term("gt", "", 0, <<a, b>>)
mk_le(a, b)         == Term("le", "", 0, <<a, b>>)
mk_add(a, b)        == Term("add", "", 0, <<a, b>>)
mk_or(a, b)         == Term("or", "", 0, <<a, b>>)
mk_implies(a, b)    == Term("implies", "", 0, <<a, b>>)
select(arr, i)      == Term("select", "", 0, <<arr, i>>)
array_symbol(name)  == Term("array_sym", name, 0, <<>>)
\* Display of an integer constant: its name
to_string(t)        == t.name

\* Option<...>::None for cur_alloc_expr and for results not yet produced
NoneExpr == Term("none", "", 0, <<>>)

\* set_pointer_logic: datatype "pointer", one variant "pointer" with the
\* accessors base, offset, meta, each of sort Int
pointer_tuple_sort == [name |-> "pointer",
                       constructor |-> "pointer",
                       accessors |-> <<"base", "offset", "meta">>]

apply_constructor(sort, args) == Term("ctor", sort.constructor, 0, args)
apply_accessor(sort, i, t)    == Term("acc", sort.accessors[i + 1], 0, <<t>>)

\* The position of accessor a in the variant that declares it
FieldIndex(sort, a) == CHOOSE i \in 1..Len(sort.accessors) : sort.accessors[i] = a

\* The value of term t in the solver model M = [int |-> ..., arr |-> ...]
RECURSIVE Eval(_, _)
Eval(t, M) ==
    CASE t.op = "int"       -> t.val
      [] t.op = "int_sym"   -> M.int[t.name]
      [] t.op = "gt"        -> Eval(t.args[1], M) > Eval(t.args[2], M)
      [] t.op = "le"        -> Eval(t.args[1], M) <= Eval(t.args[2], M)
      [] t.op = "add"       -> Eval(t.args[1], M) + Eval(t.args[2], M)
      [] t.op = "or"        -> Eval(t.args[1], M) \/ Eval(t.args[2], M)
      [] t.op = "implies"   -> Eval(t.args[1], M) => Eval(t.args[2], M)
      [] t.op = "select"    -> Eval(t.args[2], M) \in M.arr[t.args[1].name]
      [] t.op = "ctor"      -> [ctor |-> t.name,
                                fields |-> [i \in 1..Len(t.args) |-> Eval(t.args[i], M)]]
      [] t.op = "acc"       -> Eval(t.args[1], M).fields[FieldIndex(pointer_tuple_sort, t.name)]

(***************************************************************************)
(* Objects: symbol expressions with a type.  ident() is the l0 name; an     *)
(* object is identified by it, so distinct objects have distinct idents.   *)
(***************************************************************************)
Object(ident, t, sym) == [ident |-> ident, ty |-> t, is_symbol |-> sym]

NoObject == Object("", unit_type, FALSE)

Objects == {
    Object("x", struct_type(<<usize_type, array_type(usize_type, 3)>>), TRUE),
    Object("y", isize_type, TRUE),
    Object("a", array_type(tuple_type(<<isize_type, bool_type>>), 2), TRUE),
    Object("e", struct_type(<<>>), TRUE),
    Object("u", array_type(usize_type, 0), TRUE),
    Object("c", isize_type, FALSE) }

AllocExprs == {array_symbol("alloc_1"), array_symbol("alloc_2")}

\* pointer_logic
contains(spaces, object)              == object \in DOMAIN spaces
get_object_space_base(spaces, object) == spaces[object][1]
set_object_space(spaces, object, sp)  ==
    [o \in DOMAIN spaces \cup {object} |-> IF o = object THEN sp ELSE spaces[o]]

\* init_pointer_space, the name of the base constant
space_base(object) == object.ident \o "_base"

\* space_len, guessing 0 where the array has no size
space_len_guess(object) ==
    IF is_struct(object.ty) THEN Ok(Len(object.ty.elems))
    ELSE IF is_array(object.ty) THEN Ok(array_size(object.ty).v)
    ELSE Ok(1)

\* init_pointer_space, "the size is field-level"
space_len(object) ==
    IF is_struct(object.ty) THEN
        IF struct_def(object.ty).panic THEN Panicked
        ELSE Ok(Len(struct_def(object.ty).v))
    ELSE IF is_array(object.ty) THEN
        IF array_size(object.ty).some THEN Ok(array_size(object.ty).v)
        ELSE Panicked      \* expect("Array must have size")
    ELSE Ok(1)

\* positive, off by one: base >= 0
positive_off_by_one(base) == mk_gt(base, mk_smt_int(-1))

\* init_pointer_space, "base is greater than 0"
positive(base) == mk_gt(base, mk_smt_int(0))

\* disjoint, comparing the new base where its upper end belongs
disjoint_no_len(alloc, base, len, b, l) ==
    mk_implies(select(alloc, b),
               mk_or(mk_le(base, b), mk_le(mk_add(b, l), base)))

\* disjoint, gated on the new base being alive instead of the earlier one
disjoint_alive_new(alloc, base, len, b, l) ==
    mk_implies(select(alloc, base),
               mk_or(mk_le(mk_add(base, len), b), mk_le(mk_add(b, l), base)))

\* init_pointer_space, the body of the loop once neither `continue` is taken
disjoint(alloc, base, len, b, l) ==
    LET alive == select(alloc, b)
        l1 == base
        r1 == mk_add(l1, len)
        l2 == b
        r2 == mk_add(l2, l)
        no_overlap == mk_or(mk_le(r1, l2), mk_le(r2, l1))
    IN  mk_implies(alive, no_overlap)

RECURSIVE disjoint_loop(_, _, _, _, _)

\* disjoint_loop, without the `continue` on cur_alloc_expr == None
disjoint_loop_ungated(spaces, todo, alloc, base, len) ==
    IF todo = {} THEN EmptyBag
    ELSE LET o == CHOOSE o \in todo : TRUE
         IN  disjoint_loop(spaces, todo \ {o}, alloc, base, len)
             (+) SetToBag({disjoint(alloc, base, len, spaces[o][1], spaces[o][2])})

\* init_pointer_space, the loop over object_spaces().values()
disjoint_loop(spaces, todo, alloc, base, len) ==
    IF todo = {} THEN EmptyBag
    ELSE LET o == CHOOSE o \in todo : TRUE
             b == spaces[o][1]
             l == spaces[o][2]
             rest == disjoint_loop(spaces, todo \ {o}, alloc, base, len)
         IN  IF to_string(base) = to_string(b) THEN rest
             ELSE IF alloc = NoneExpr THEN rest
             ELSE rest (+) SetToBag({disjoint(alloc, base, len, b, l)})

\* init_pointer_space, storing the new space in a registry of its own
init_pointer_space_reset(spaces, asserted, alloc, object) ==
    IF contains(spaces, object) \/ ~object.is_symbol \/ space_len(object).panic
    THEN [panic |-> TRUE, spaces |-> spaces, asserted |-> asserted]
    ELSE LET base == mk_int_symbol(space_base(object))
             len  == mk_smt_int(space_len(object).v)
         IN  [panic |-> FALSE,
              asserted |-> asserted (+) SetToBag({positive(base)})
                              (+) disjoint_loop(spaces, DOMAIN spaces, alloc, base, len),
              spaces |-> set_object_space(<<>>, object, <<base, len>>)]

\* init_pointer_space: what it asserts and stores, or the panic it ends in
init_pointer_space(spaces, asserted, alloc, object) ==
    IF contains(spaces, object) \/ ~object.is_symbol \/ space_len(object).panic
    THEN [panic |-> TRUE, spaces |-> spaces, asserted |-> asserted]
    ELSE LET base == mk_int_symbol(space_base(object))
             len  == mk_smt_int(space_len(object).v)
         IN  [panic |-> FALSE,
              asserted |-> asserted (+) SetToBag({positive(base)})
                              (+) disjoint_loop(spaces, DOMAIN spaces, alloc, base, len),
              spaces |-> set_object_space(spaces, object, <<base, len>>)]

\* A panic ends the run: nothing is returned, nothing else is touched
Abort(object) == /\ status' = "aborted"
                 /\ arg' = object
                 /\ ret' = NoneExpr
                 /\ UNCHANGED <<object_spaces, assertions, cur_alloc_expr, reg_log>>

RegisterNew(object) ==
    LET r == init_pointer_space(object_spaces, assertions, cur_alloc_expr, object)
    IN  IF r.panic THEN Abort(object)
        ELSE /\ object_spaces' = r.spaces
             /\ assertions' = r.asserted
             /\ ret' = get_object_space_base(r.spaces, object)
             /\ arg' = object
             /\ reg_log' = Append(reg_log, <<object, cur_alloc_expr>>)
             /\ UNCHANGED <<cur_alloc_expr, status>>

\* create_object_space, without the early return for a registered object
create_object_space_unchecked(object) ==
    /\ status = "running"
    /\ IF ~object.is_symbol THEN Abort(object) ELSE RegisterNew(object)

create_object_space(object) ==
    /\ status = "running"
    /\ IF ~object.is_symbol THEN Abort(object)
       ELSE IF contains(object_spaces, object) THEN
            /\ ret' = get_object_space_base(object_spaces, object)
            /\ arg' = object
            /\ UNCHANGED <<object_spaces, assertions, cur_alloc_expr, status, reg_log>>
       ELSE RegisterNew(object)

\* The driver sets or clears the array of alive allocations
set_cur_alloc_expr(alloc) ==
    /\ status = "running"
    /\ cur_alloc_expr # alloc
    /\ cur_alloc_expr' = alloc
    /\ UNCHANGED <<object_spaces, assertions, arg, ret, status, reg_log>>

MemInit == /\ object_spaces = <<>>
           /\ assertions = EmptyBag
           /\ cur_alloc_expr = NoneExpr
           /\ arg = NoObject
           /\ ret = NoneExpr
           /\ status = "running"
           /\ reg_log = <<>>

CreateObjectSpace ==
    /\ \E object \in Objects : create_object_space(object)
    /\ UNCHANGED <<ty_vars, pt_vars>>

SetCurAllocExpr ==
    /\ \E alloc \in AllocExprs \cup {NoneExpr} : set_cur_alloc_expr(alloc)
    /\ UNCHANGED <<ty_vars, pt_vars>>

(***************************************************************************)
(* The pointer datatype: constructor and accessors.                        *)
(***************************************************************************)
\* mk_pointer, handing base and offset to the constructor in the wrong order
mk_pointer_swapped(base, offset, meta) ==
    LET metadata == IF meta = NoneExpr THEN mk_smt_int(0) ELSE meta
    IN  apply_constructor(pointer_tuple_sort, <<offset, base, metadata>>)

mk_pointer(base, offset, meta) ==
    LET metadata == IF meta = NoneExpr THEN mk_smt_int(0) ELSE meta
    IN  apply_constructor(pointer_tuple_sort, <<base, offset, metadata>>)

mk_pointer_base(p)   == apply_accessor(pointer_tuple_sort, 0, p)
mk_pointer_offset(p) == apply_accessor(pointer_tuple_sort, 1, p)
mk_pointer_meta(p)   == apply_accessor(pointer_tuple_sort, 2, p)

IntTerms == {mk_smt_int(i) : i \in -1..MaxInt} \cup {mk_int_symbol("n")}

PtInit == /\ pt_in \in IntTerms \X IntTerms \X IntTerms
          /\ pt = NoneExpr
          /\ pt_meta_given = FALSE
          /\ pt_op = "none"
          /\ pt_out = NoneExpr

MkPointer == /\ pt = NoneExpr
             /\ \E given \in BOOLEAN :
                   /\ pt' = mk_pointer(pt_in[1], pt_in[2],
                                       IF given THEN pt_in[3] ELSE NoneExpr)
                   /\ pt_meta_given' = given
             /\ UNCHANGED <<pt_in, pt_op, pt_out, mem_vars, ty_vars>>

MkPointerBase == /\ pt # NoneExpr
                 /\ pt_out' = mk_pointer_base(pt)
                 /\ pt_op' = "base"
                 /\ UNCHANGED <<pt_in, pt, pt_meta_given, mem_vars, ty_vars>>

MkPointerOffset == /\ pt # NoneExpr
                   /\ pt_out' = mk_pointer_offset(pt)
                   /\ pt_op' = "offset"
                   /\ UNCHANGED <<pt_in, pt, pt_meta_given, mem_vars, ty_vars>>

MkPointerMeta == /\ pt # NoneExpr
                 /\ pt_out' = mk_pointer_meta(pt)
                 /\ pt_op' = "meta"
                 /\ UNCHANGED <<pt_in, pt, pt_meta_given, mem_vars, ty_vars>>

(***************************************************************************)
(* Specifications.  Spec is the object space registry; SpecTy the type     *)
(* layer; SpecPtr the pointer datatype.  Each leaves the other layers at   *)
(* rest.                                                                   *)
(***************************************************************************)
TyIdle == ty = unit_type /\ nf = NoResult
PtIdle == /\ pt_in = <<mk_smt_int(0), mk_smt_int(0), mk_smt_int(0)>>
          /\ pt = NoneExpr /\ pt_meta_given = FALSE
          /\ pt_op = "none" /\ pt_out = NoneExpr

Init == MemInit /\ TyIdle /\ PtIdle
Next == CreateObjectSpace \/ SetCurAllocExpr
Spec == Init /\ [][Next]_vars

InitTy == TyInit /\ MemInit /\ PtIdle
NextTy == WrapArray \/ WrapStruct \/ WrapTuple \/ CallNumFields
SpecTy == InitTy /\ [][NextTy]_vars

InitPtr == PtInit /\ MemInit /\ TyIdle
NextPtr == MkPointer \/ MkPointerBase \/ MkPointerOffset \/ MkPointerMeta
SpecPtr == InitPtr /\ [][NextPtr]_vars

(***************************************************************************)
(* Solver models of a state.  Integer constants are interpreted over the   *)
(* addresses 0..MaxAddr; an allocation array is interpreted on the         *)
(* addresses the integer constants denote, the only places a term reads it.*)
(***************************************************************************)
Addr == 0..MaxAddr

Registered == DOMAIN object_spaces
BaseOf(o)  == object_spaces[o][1]
LenOf(o)   == object_spaces[o][2]

Symbols == {to_string(BaseOf(o)) : o \in Registered}

RECURSIVE ReadsArray(_)
ReadsArray(t) == \/ t.op = "select"
                 \/ \E k \in 1..Len(t.args) : ReadsArray(t.args[k])

IntModels    == [Symbols -> Addr]
ArrModels(i) == [{to_string(a) : a \in AllocExprs} -> SUBSET {i[s] : s \in Symbols}]
Model(i, a)  == [int |-> i, arr |-> a]

\* M satisfies the accumulated assertion set
Sat(M) == \A t \in BagToSet(assertions) : Eval(t, M)

\* i satisfies the assertions that read no array
SatInt(i) == \A t \in BagToSet(assertions) : ReadsArray(t) \/ Eval(t, Model(i, <<>>))

\* Every model that satisfies the accumulated assertion set
SatModels ==
    UNION { {Model(i, a) : a \in {a \in ArrModels(i) : Sat(Model(i, a))}} :
            i \in {i \in IntModels : SatInt(i)} }

\* The half-open ranges of o1 and o2 do not overlap in M
NoOverlap(o1, o2, M) ==
    \/ Eval(BaseOf(o1), M) + Eval(LenOf(o1), M) <= Eval(BaseOf(o2), M)
    \/ Eval(BaseOf(o2), M) + Eval(LenOf(o2), M) <= Eval(BaseOf(o1), M)

Alive(alloc, o, M) == Eval(select(alloc, BaseOf(o)), M)

\* C4: for every registered object the assertion base > 0 is in the
\* assertion set, and so base > 0 holds in every model that satisfies the
\* assertion set.
C4_PositiveBase ==
    LET Ms == SatModels IN
    \A o \in Registered :
        /\ BagIn(mk_gt(BaseOf(o), mk_smt_int(0)), assertions)
        /\ \A M \in Ms : Eval(BaseOf(o), M) > 0

C4_Witness ==
    /\ Cardinality(Registered) = 3
    /\ \E j \in 1..Len(reg_log) : reg_log[j][2] # NoneExpr
    /\ SatModels # {}

\* C1 as stated: for every two distinct registered objects, every model
\* that satisfies the assertion set and in which an allocation array marks
\* both bases alive keeps the two ranges apart.
C1_AlwaysDisjoint ==
    LET Ms == SatModels IN
    \A o1 \in Registered, o2 \in Registered :
        o1 # o2 =>
            \A alloc \in AllocExprs, M \in Ms :
                (Alive(alloc, o1, M) /\ Alive(alloc, o2, M)) => NoOverlap(o1, o2, M)

\* C1 amended: for an object registered while an allocation array was set,
\* and any object registered before it, every model that satisfies the
\* assertion set and in which that array (the one current at the later
\* registration) marks both bases alive keeps the two ranges apart.
C1_DisjointWhenGated ==
    LET Ms == SatModels IN
    \A j \in 1..Len(reg_log), k \in 1..Len(reg_log) :
        (j < k /\ reg_log[k][2] # NoneExpr) =>
            \A M \in Ms :
                (/\ Alive(reg_log[k][2], reg_log[j][1], M)
                 /\ Alive(reg_log[k][2], reg_log[k][1], M))
                => NoOverlap(reg_log[j][1], reg_log[k][1], M)

C1_Witness ==
    /\ Len(reg_log) = 3
    /\ reg_log[2][2] # NoneExpr
    /\ reg_log[3][2] # NoneExpr
    /\ reg_log[3][2] # reg_log[2][2]
    /\ \E M \in SatModels :
          /\ Alive(reg_log[2][2], reg_log[1][1], M)
          /\ Alive(reg_log[2][2], reg_log[2][1], M)

(***************************************************************************)
(* flattened_field_count as the specification defines it (4.1): the        *)
(* number of leaf scalar fields of a type.                                 *)
(***************************************************************************)
RECURSIVE FlatCount(_)
RECURSIVE FlatSum(_)
FlatSum(ts) == IF ts = <<>> THEN 0 ELSE FlatCount(Head(ts)) + FlatSum(Tail(ts))
FlatCount(t) ==
    IF is_unit(t) THEN 0
    ELSE IF is_bool(t) \/ is_integer(t) \/ is_any_ptr(t) THEN 1
    ELSE IF is_array(t) THEN t.n * FlatCount(t.elems[1])
    ELSE FlatSum(t.elems)

\* C5: whenever num_fields returns, it returns the flattened field count:
\* 0 for unit, 1 for a boolean, an integer or a pointer-like type, n times
\* the count of the element for an array of length n, the sum over the fields
\* for a struct and over the elements for a tuple.
C5_NumFieldsFlattens ==
    (nf.done /\ ~nf.panic) => nf.v = FlatCount(ty)

\* C2: the length stored for a registered object is the flattened field
\* count of its type (and C8 keeps it from changing).
C2_LengthIsFlatCount ==
    \A o \in Registered : LenOf(o) = mk_smt_int(FlatCount(o.ty))

\* C3: create_object_space on a registered object returns the stored base,
\* the same term the registering call returned, adds no assertion and
\* leaves the registry alone; no assertion is ever in the set twice.
C3_Idempotent ==
    /\ []((status = "running" /\ arg \in Registered) => ret = BaseOf(arg))
    /\ [](\A t \in BagToSet(assertions) : CopiesIn(t, assertions) = 1)
    /\ [][\A o \in Objects :
            (o \in Registered /\ create_object_space(o)) =>
                /\ ret' = BaseOf(o)
                /\ ret' = get_object_space_base(object_spaces', o)
                /\ status' = "running"
                /\ object_spaces' = object_spaces
                /\ assertions' = assertions]_vars

\* a registered object was asked for again, with other objects registered
\* since and an allocation array set
C3_Witness ==
    /\ status = "running"
    /\ Len(reg_log) = 3
    /\ arg = reg_log[1][1]
    /\ cur_alloc_expr # NoneExpr

\* C6: registering a new object while no allocation array is set adds
\* exactly one assertion, the positivity of the new base, however many
\* spaces are registered.
C6_NoDisjointnessWithoutAlloc ==
    [][\A o \in Objects :
          (/\ o \notin Registered
           /\ cur_alloc_expr = NoneExpr
           /\ create_object_space(o)
           /\ status' = "running")
          => /\ assertions' =
                  assertions (+) SetToBag({mk_gt(object_spaces'[o][1], mk_smt_int(0))})
             /\ BagCardinality(assertions') = BagCardinality(assertions) + 1]_vars

C6_Witness ==
    /\ Len(reg_log) = 3
    /\ reg_log[3][2] = NoneExpr
    /\ reg_log[2][2] # NoneExpr
    /\ BagCardinality(assertions) = 4

\* The assertion the specification gives for the new space <<base, len>>
\* against the earlier space <<b, l>>:
\*     alloc[b] => (base + len <= b) \/ (b + l <= base)
Gated(alloc, base, len, b, l) ==
    Term("implies", "", 0,
         << Term("select", "", 0, <<alloc, b>>),
            Term("or", "", 0,
                 << Term("le", "", 0, <<Term("add", "", 0, <<base, len>>), b>>),
                    Term("le", "", 0, <<Term("add", "", 0, <<b, l>>), base>>) >>) >>)

\* C7: registering a new object while an allocation array is set adds, next
\* to the positivity assertion, exactly one assertion
\* alloc[b_i] => (base + len <= b_i) \/ (b_i + l_i <= base) for every space
\* registered before, with the array current at that registration and the
\* stored length l_i, and none for the new space itself.
C7_OneGatedAssertionPerEarlierSpace ==
    [][\A o \in Objects :
          (/\ o \notin Registered
           /\ cur_alloc_expr # NoneExpr
           /\ create_object_space(o)
           /\ status' = "running")
          => LET base == object_spaces'[o][1]
                 len  == object_spaces'[o][2]
                 new  == assertions' (-) assertions
             IN  /\ assertions \sqsubseteq assertions'
                 /\ BagToSet(new) =
                       {mk_gt(base, mk_smt_int(0))} \cup
                       {Gated(cur_alloc_expr, base, len, BaseOf(p), LenOf(p)) :
                            p \in Registered}
                 /\ \A p \in Registered :
                       CopiesIn(Gated(cur_alloc_expr, base, len, BaseOf(p), LenOf(p)),
                                new) = 1
                 /\ BagCardinality(new) = 1 + Cardinality(Registered)]_vars

C7_Witness ==
    /\ Len(reg_log) = 3
    /\ reg_log[3][2] = array_symbol("alloc_2")
    /\ reg_log[2][2] = array_symbol("alloc_1")
    /\ BagCardinality(assertions) = 6

\* C8: a registered object stays registered with the same <<base, len>>,
\* no assertion is removed, and the registry changes only by
\* create_object_space adding one object that was not registered.
C8_AppendOnly ==
    [][/\ \A o \in Registered :
            o \in DOMAIN object_spaces' /\ object_spaces'[o] = object_spaces[o]
       /\ assertions \sqsubseteq assertions'
       /\ (object_spaces' # object_spaces =>
             \E o \in Objects \ Registered :
                /\ create_object_space(o)
                /\ DOMAIN object_spaces' = Registered \cup {o})]_vars

C8_Witness ==
    /\ Cardinality(Registered) = 3
    /\ status = "aborted"
    /\ BagCardinality(assertions) = 5

\* C9: create_object_space on an object whose type is a struct without
\* fields or an array of declared length 0 aborts: nothing is returned, and
\* the registry and the assertion set are as before the call.
C9_AbortsWithoutSize ==
    [][\A o \in Objects :
          (/\ \/ (o.ty.k = "struct" /\ o.ty.elems = <<>>)
              \/ (o.ty.k = "array" /\ o.ty.n = 0)
           /\ create_object_space(o))
          => /\ status' = "aborted"
             /\ ret' = NoneExpr
             /\ object_spaces' = object_spaces
             /\ assertions' = assertions]_vars

C9_Witness ==
    /\ status = "aborted"
    /\ arg.ty.k = "array" /\ arg.ty.n = 0
    /\ Cardinality(Registered) = 2
    /\ cur_alloc_expr # NoneExpr

\* C10: the accessors undo the constructor: in every interpretation of the
\* integer terms, the base, offset and meta read from mk_pointer(b, o, m)
\* are b, o and m, and the meta read from mk_pointer(b, o) is 0.
PtModels == {Model(i, <<>>) : i \in [{"n"} -> -1..MaxInt]}

C10_RoundTrip ==
    \A M \in PtModels :
        /\ pt_op = "base"   => Eval(pt_out, M) = Eval(pt_in[1], M)
        /\ pt_op = "offset" => Eval(pt_out, M) = Eval(pt_in[2], M)
        /\ pt_op = "meta"   => Eval(pt_out, M) =
                                  IF pt_meta_given THEN Eval(pt_in[3], M) ELSE 0

C10_Witness ==
    /\ pt_op = "meta"
    /\ ~pt_meta_given
    /\ pt_in[1] = mk_int_symbol("n")
    /\ pt_in[2] = mk_smt_int(2)
    /\ pt_in[3] = mk_smt_int(1)

====
